---- MODULE Spec2Model ----
(***************************************************************************)
(* foo: convert a generator function into a function returning a promise.  *)
(*                                                                         *)
(* Two versions of the wrapper are in the sources:                         *)
(*   impl = "bluebird"  src/foo.js: module.exports = Promise.coroutine,    *)
(*                      with the yield handler value -> Promise.resolve;   *)
(*   impl = "q"         src/test/testFoo.js:168-176: Q.async(generator)    *)
(*                      whose promise is forwarded to a standard promise.  *)
(* Both hand the scheduling to the promise library they require.  The      *)
(* library is modelled by what it does with the calls the sources make:    *)
(* a settled promise never changes, and a continuation of a promise runs   *)
(* as a job of the library's queue, never inside the call that registers   *)
(* it or inside the call that settles the promise.  Chains of forwarding   *)
(* jobs inside a library are one job.  The order between the library's     *)
(* queue and process.nextTick is left open.                                *)
(*                                                                         *)
(* A generator body is an input: each time a body runs (from its start or  *)
(* from a resumption to its next yield, return or throw) what it does is   *)
(* drawn from Bodies.  Values are tokens, Tok(i, k) for the k-th value of  *)
(* invocation i, so that a value delivered to the wrong place shows.       *)
(***************************************************************************)
EXTENDS Integers, Sequences, FiniteSets, TLC

NInv == 2      \* invocations (wrapper calls) in one run
MaxLen == 2    \* suspensions one invocation may issue

Inv == 1..NInv

Undefined == 0
TypeErrorTok == Undefined - 1
Tok(i, k) == i * (MaxLen + 2) + k

VARIABLES
    impl,           \* which version of foo is loaded
    GlobalPromise,  \* the global Promise constructor
    yieldHandlers,  \* handlers registered with Promise.coroutine.addYieldHandler
    longStackTraces,\* Promise.longStackTraces() was called
    st,             \* generator of invocation i: idle, created, running, suspended, done
    pc,             \* suspensions invocation i has issued
    nres,           \* suspensions of invocation i that were resumed
    susp,           \* what the generator yielded at its current suspension
    aw,             \* the promise the driver of invocation i waits on
    genres,         \* how the generator of i ended
    ret,            \* the promise the wrapper call i returned
    escaped,        \* the wrapper call i threw instead of returning
    caller,         \* the invocation whose body made call i, 0 outside any
    asyncQ,         \* jobs of the promise library's queue
    tickQ           \* callbacks of process.nextTick

vars == <<impl, GlobalPromise, yieldHandlers, longStackTraces, st, pc, nres,
          susp, aw, genres, ret, escaped, caller, asyncQ, tickQ>>

Impls == {"bluebird", "q"}
Guards == {"none", "swallow", "rethrow"}
YieldStmts == {"plain", "resolved", "rejected", "belay", "belayError"}
EndStmts == {"throw", "returnRecv", "returnArg"}
FirstStmts == YieldStmts \cup EndStmts
Stmts == FirstStmts \cup {"call"}

(* What a body does when it is entered: guard is the try/catch around the  *)
(* yield it is resumed at, stmt what it runs next, callee the first        *)
(* statement of the wrapped function it calls when stmt = "call" (a body   *)
(* that is called from a body does not start with a call itself).          *)
Bodies ==
    {b \in [guard : Guards, stmt : Stmts, callee : FirstStmts] :
        b.stmt # "call" => b.callee = "returnArg"}

\* ---- promises ----------------------------------------------------------
Pending == [state |-> "pending", val |-> Undefined]
PromiseResolve(value) == [state |-> "fulfilled", val |-> value]
PromiseReject(error) == [state |-> "rejected", val |-> error]
Null == [state |-> "null", val |-> Undefined]
NoAwait == [ref |-> 0, state |-> "none", val |-> Undefined]
NoResult == [kind |-> "none", val |-> Undefined]

\* variants of the handler: one that loses the value, one that never settles
YieldHandlerDropsValue(value) == PromiseResolve(Undefined)
YieldHandlerNeverSettles(value) == Pending

\* foo.js:62-64, the handler foo registers
YieldHandler(value) == PromiseResolve(value)

ApplyHandler(h, value) == IF h = "foo" THEN YieldHandler(value) ELSE Null

\* the first registered handler that gives a promise, or Null
RECURSIVE promiseFromYieldHandler(_, _)
promiseFromYieldHandler(value, handlers) ==
    IF handlers = <<>> THEN Null
    ELSE LET r == ApplyHandler(Head(handlers), value)
         IN  IF r # Null THEN r ELSE promiseFromYieldHandler(value, Tail(handlers))

\* ---- the state as one record, for the operators that thread it ----------
State ==
    [impl |-> impl, yieldHandlers |-> yieldHandlers, st |-> st, pc |-> pc,
     nres |-> nres, susp |-> susp, aw |-> aw, genres |-> genres,
     ret |-> ret, escaped |-> escaped, caller |-> caller, asyncQ |-> asyncQ, tickQ |-> tickQ]

Free(S) == {j \in Inv : S.st[j] = "idle"}
NextFree(S) == CHOOSE j \in Free(S) : \A k \in Free(S) : j <= k

\* variant that waits on the promise of a call as on a value of its own
AwaitedOfOwn(S, i) == [state |-> S.aw[i].state, val |-> S.aw[i].val]

\* the promise invocation i waits on, looked up when it is another call's
AwaitedOf(S, i) ==
    IF S.aw[i].ref # 0 THEN S.ret[S.aw[i].ref]
    ELSE [state |-> S.aw[i].state, val |-> S.aw[i].val]

\* variant that wakes every suspended invocation
SubscribersAll(S, j) == {i \in Inv : S.st[i] = "suspended"}

\* the invocations whose driver has subscribed to the promise returned by j
Subscribers(S, j) ==
    {i \in Inv : S.st[i] = "suspended" /\ S.aw[i].ref = j}

\* variant that hands a rejection over as a value
ResumeJobAlwaysNext(i, p) == [inv |-> i, verb |-> "next", arg |-> p.val]

\* the job that resumes i with the outcome p: generator.next(value) for a
\* fulfilment, generator.throw(reason) for a rejection
ResumeJob(i, p) ==
    [inv |-> i, verb |-> IF p.state = "fulfilled" THEN "next" ELSE "throw",
     arg |-> p.val]

RECURSIVE SeqOf(_)
SeqOf(set) ==
    IF set = {} THEN <<>>
    ELSE LET x == CHOOSE y \in set : \A z \in set : y <= z
         IN  <<x>> \o SeqOf(set \ {x})

\* the promise returned by call j settles; its continuations become jobs
SettleRet(S, j, p) ==
    IF S.ret[j].state # "pending" THEN S
    ELSE LET subs == SeqOf(Subscribers(S, j))
         IN  [S EXCEPT !.ret[j] = p,
                       !.asyncQ = @ \o [k \in 1..Len(subs) |-> ResumeJob(subs[k], p)]]

\* variant that fulfils whatever the outcome
FinishedAlwaysFulfils(S, j, p) ==
    IF S.impl = "bluebird" THEN SettleRet(S, j, PromiseResolve(p.val))
    ELSE [S EXCEPT !.asyncQ = Append(@, [inv |-> j, verb |-> "resolve", arg |-> p.val])]

\* the generator of j ended with outcome p
\*   bluebird: promise._resolveCallback / _rejectCallback, at once
\*   q:        promise.then(resolve, reject) of testFoo.js:173, as a job
Finished(S, j, p) ==
    IF S.impl = "bluebird" THEN SettleRet(S, j, p)
    ELSE [S EXCEPT !.asyncQ = Append(@,
            [inv |-> j,
             verb |-> IF p.state = "fulfilled" THEN "resolve" ELSE "reject",
             arg |-> p.val])]

\* variant without the try: the error leaves the driver
tryCatchMissing(S, i, e) == [S EXCEPT !.escaped[i] = TRUE]

\* the generator of i threw e out of generator.next / generator.throw; both
\* drivers make the call inside a try and reject the promise of the call
tryCatch(S, i, e) == Finished(S, i, PromiseReject(e))

\* variant that queues the resumption without waiting for the promise
AwaitNoWait(S, i, y) ==
    LET S1 == [S EXCEPT !.st[i] = "suspended", !.aw[i] = y.p]
    IN  [S1 EXCEPT !.asyncQ = Append(@, ResumeJob(i, AwaitedOf(S1, i)))]

\* the driver takes the value the generator of i yielded
\*   bluebird: a promise is waited on as it is, any other value goes to the
\*             yield handlers
\*   q:        when(result.value, callback, errback), any value
Await(S, i, y) ==
    LET mp == IF y.isPromise THEN y.p
              ELSE LET h == IF S.impl = "q" THEN PromiseResolve(y.p.val)
                            ELSE promiseFromYieldHandler(y.p.val, S.yieldHandlers)
                   IN  IF h = Null THEN h ELSE [ref |-> 0, state |-> h.state, val |-> h.val]
    IN  IF mp = Null
        THEN \* no handler took the value: a TypeError is raised at the yield
             [S EXCEPT !.st[i] = "suspended", !.aw[i] = NoAwait,
                       !.asyncQ = Append(@, [inv |-> i, verb |-> "throw", arg |-> TypeErrorTok])]
        ELSE LET S1 == [S EXCEPT !.st[i] = "suspended", !.aw[i] = mp]
                 p == AwaitedOf(S1, i)
             IN  IF p.state = "pending" THEN S1
                 ELSE [S1 EXCEPT !.asyncQ = Append(@, ResumeJob(i, p))]

\* belay / belayError of testFoo.js:27-50: a pending promise and a
\* process.nextTick callback that settles it
belay(S, i, value) ==
    [S EXCEPT !.tickQ = Append(@, [inv |-> i, how |-> "resolve", val |-> value])]
belayError(S, i, error) ==
    [S EXCEPT !.tickQ = Append(@, [inv |-> i, how |-> "reject", val |-> error])]

RECURSIVE Resume(_, _, _, _, _)

\* variant that starts the body in a later job
WrapperCallDeferred(S, j, from, body) ==
    [S EXCEPT !.st[j] = "created", !.caller[j] = from,
              !.asyncQ = Append(@, [inv |-> j, verb |-> "next", arg |-> Undefined])]

\* the wrapper returned by foo is called: invocation j
\*   foo.js:74 (Promise.coroutine) / testFoo.js:169-175
WrapperCall(S, j, from, body) ==
    LET S1 == [S EXCEPT !.st[j] = "created", !.caller[j] = from]
    IN  Resume(S1, j, "next", Undefined, body)

\* generator.next(arg) / generator.throw(arg) of invocation i, run to its
\* next yield, return or throw, and what the driver does with the result
Resume(S, i, verb, arg, body) ==
    LET S1 == [S EXCEPT !.st[i] = "running",
                        !.nres[i] = IF S.st[i] = "suspended" THEN @ + 1 ELSE @,
                        !.aw[i] = NoAwait,
                        !.susp[i] = "none"]
        tok == Tok(i, S.pc[i] + 1)
        End(T, kind, v) ==
            LET T1 == [T EXCEPT !.st[i] = "done", !.genres[i] = [kind |-> kind, val |-> v]]
            IN  IF kind \in {"returnRecv", "returnArg"}
                THEN Finished(T1, i, PromiseResolve(v))
                ELSE tryCatch(T1, i, v)
        Yield(T, kind, y) ==
            Await([T EXCEPT !.pc[i] = @ + 1, !.susp[i] = kind], i, y)
        Own(p) == [isPromise |-> TRUE, p |-> [ref |-> 0, state |-> p.state, val |-> p.val]]
    IN  IF verb = "throw" /\ body.guard # "swallow" THEN End(S1, "uncaught", arg)
        ELSE CASE body.stmt = "throw" -> End(S1, "throw", tok)
               [] body.stmt = "returnRecv" ->
                    End(S1, "returnRecv", IF verb = "next" THEN arg ELSE Undefined)
               [] body.stmt = "returnArg" -> End(S1, "returnArg", Tok(i, 0))
               [] body.stmt = "plain" ->
                    Yield(S1, "plain",
                          [isPromise |-> FALSE, p |-> [ref |-> 0, state |-> "none", val |-> tok]])
               [] body.stmt = "resolved" -> Yield(S1, "resolved", Own(PromiseResolve(tok)))
               [] body.stmt = "rejected" -> Yield(S1, "rejected", Own(PromiseReject(tok)))
               [] body.stmt = "belay" -> Yield(belay(S1, i, tok), "belay", Own(Pending))
               [] body.stmt = "belayError" ->
                    Yield(belayError(S1, i, tok), "belayError", Own(Pending))
               [] body.stmt = "call" ->
                    LET j == NextFree(S1)
                    IN  Yield(WrapperCall(S1, j, i, [guard |-> "none", stmt |-> body.callee,
                                                 callee |-> "returnArg"]), "call",
                              [isPromise |-> TRUE,
                               p |-> [ref |-> j, state |-> "none", val |-> Undefined]])

\* what a body may do from the state it is entered in by verb; a try/catch
\* matters only when an error is thrown in, and the statements after the
\* yield only when the body goes on
Allowed(S, i, verb, body) ==
    /\ body.stmt \in YieldStmts \cup {"call"} => S.pc[i] < MaxLen
    /\ body.stmt = "call" => Free(S) \ {i} # {}
    /\ verb = "next" => body.guard = "none"
    /\ (verb = "throw" /\ body.guard # "swallow") => body.stmt = "returnArg"

Install(T) ==
    \E S \in {T} :
    /\ st' = S.st
    /\ pc' = S.pc
    /\ nres' = S.nres
    /\ susp' = S.susp
    /\ aw' = S.aw
    /\ genres' = S.genres
    /\ ret' = S.ret
    /\ escaped' = S.escaped
    /\ caller' = S.caller
    /\ asyncQ' = S.asyncQ
    /\ tickQ' = S.tickQ
    /\ UNCHANGED <<impl, GlobalPromise, yieldHandlers, longStackTraces>>

\* ---- the actions --------------------------------------------------------
\* the state after the module is loaded, for either version
Loaded(version) ==
    /\ impl = version
    /\ GlobalPromise = (IF impl = "bluebird" THEN "bluebird" ELSE "native")
    /\ yieldHandlers = (IF impl = "bluebird" THEN <<"foo">> ELSE <<>>)
    /\ longStackTraces = (impl = "bluebird")
    /\ st = [i \in Inv |-> "idle"]
    /\ pc = [i \in Inv |-> 0]
    /\ nres = [i \in Inv |-> 0]
    /\ susp = [i \in Inv |-> "none"]
    /\ aw = [i \in Inv |-> NoAwait]
    /\ genres = [i \in Inv |-> NoResult]
    /\ ret = [i \in Inv |-> Pending]
    /\ escaped = [i \in Inv |-> FALSE]
    /\ caller = [i \in Inv |-> 0]
    /\ asyncQ = <<>>
    /\ tickQ = <<>>

\* src/foo.js is loaded
Init == Loaded("bluebird")

\* the older foo of testFoo.js:155-177 is loaded
QInit == Loaded("q")

\* a wrapper is called from outside any generator
Call ==
    /\ \E S \in {State} :
         /\ Free(S) # {}
         /\ \E body \in Bodies :
              /\ Allowed(S, NextFree(S), "next", body)
              /\ Install(WrapperCall(S, NextFree(S), 0, body))

\* the library runs the job at the head of its queue: a resumption
RunResume ==
    /\ asyncQ # <<>>
    /\ Head(asyncQ).verb \in {"next", "throw"}
    /\ \E job \in {Head(asyncQ)}, S \in {[State EXCEPT !.asyncQ = Tail(asyncQ)]} :
         \E body \in Bodies :
             /\ Allowed(S, job.inv, job.verb, body)
             /\ Install(Resume(S, job.inv, job.verb, job.arg, body))

\* the q version's job that forwards the outcome to the standard promise
RunSettle ==
    /\ asyncQ # <<>>
    /\ Head(asyncQ).verb \in {"resolve", "reject"}
    /\ LET job == Head(asyncQ)
           S == [State EXCEPT !.asyncQ = Tail(asyncQ)]
       IN  Install(SettleRet(S, job.inv,
                IF job.verb = "resolve" THEN PromiseResolve(job.arg) ELSE PromiseReject(job.arg)))

\* variant that settles the promise and wakes nobody
TickWakesNobody ==
    /\ tickQ # <<>>
    /\ LET t == Head(tickQ)
           p == IF t.how = "resolve" THEN PromiseResolve(t.val) ELSE PromiseReject(t.val)
       IN  Install([State EXCEPT !.tickQ = Tail(tickQ),
                                 !.aw[t.inv] = [ref |-> 0, state |-> p.state, val |-> p.val]])

\* process.nextTick runs the callback of belay / belayError
Tick ==
    /\ tickQ # <<>>
    /\ LET t == Head(tickQ)
           p == IF t.how = "resolve" THEN PromiseResolve(t.val) ELSE PromiseReject(t.val)
           S == [State EXCEPT !.tickQ = Tail(tickQ),
                              !.aw[t.inv] = [ref |-> 0, state |-> p.state, val |-> p.val]]
       IN  Install([S EXCEPT !.asyncQ = Append(@, ResumeJob(t.inv, p))])

\* src/foo.js: the promise of a call is settled by the driver itself
Next == Call \/ RunResume \/ Tick

Spec == Init /\ [][Next]_vars

\* the library drains its queue and node runs every nextTick callback
FairSpec == Spec /\ WF_vars(RunResume) /\ WF_vars(Tick)

\* the older foo: the same, and the jobs that settle the standard promise
QNext == Call \/ RunResume \/ RunSettle \/ Tick

QSpec == QInit /\ [][QNext]_vars

QFairSpec == QSpec /\ WF_vars(RunResume) /\ WF_vars(RunSettle) /\ WF_vars(Tick)

TypeOK ==
    /\ impl \in Impls
    /\ st \in [Inv -> {"idle", "suspended", "done"}]
    /\ pc \in [Inv -> 0..MaxLen]
    /\ nres \in [Inv -> 0..MaxLen]
    /\ caller \in [Inv -> 0..NInv]
    /\ \A i \in Inv : ret[i].state \in {"pending", "fulfilled", "rejected"}
    /\ Len(asyncQ) <= NInv
    /\ Len(tickQ) <= NInv

\* ---- the properties -----------------------------------------------------
Settled(p) == p.state \in {"fulfilled", "rejected"}
ReturnKinds == {"returnRecv", "returnArg"}
ErrorKinds == {"throw", "uncaught"}
Job(i, verb, arg) == [inv |-> i, verb |-> verb, arg |-> arg]
InQueue(job) == \E k \in 1..Len(asyncQ) : asyncQ[k] = job
ResumeJobsFor(i) ==
    {k \in 1..Len(asyncQ) : asyncQ[k].inv = i /\ asyncQ[k].verb \in {"next", "throw"}}

\* this step resumes the suspension of invocation i
Resumed(i) == nres'[i] = nres[i] + 1
\* this step resumes i by generator.next(arg) (verb next) or generator.throw(arg)
ResumedBy(i, verb, arg) == asyncQ # <<>> /\ Head(asyncQ) = Job(i, verb, arg)

\* C1: a suspension on a value v (yielded plain, in a fulfilled promise, or
\* in a promise fulfilled in a later tick) is resumed by generator.next(v);
\* a body that then returns what the yield gave returns v, and the promise
\* of the call, once settled, is fulfilled with v.
C1_ResumedWithYieldedValue ==
    /\ [][\A i \in Inv :
            (Resumed(i) /\ susp[i] \in {"plain", "resolved", "belay"}) =>
                /\ ResumedBy(i, "next", Tok(i, pc[i]))
                /\ genres'[i].kind = "returnRecv" => genres'[i].val = Tok(i, pc[i])]_vars
    /\ [](\A i \in Inv :
            (genres[i].kind = "returnRecv" /\ Settled(ret[i])) =>
                ret[i] = PromiseResolve(genres[i].val))

C1_Witness ==
    \E i \in Inv :
        /\ pc[i] = MaxLen
        /\ genres[i] = [kind |-> "returnRecv", val |-> Tok(i, MaxLen)]
        /\ ret[i] = PromiseResolve(Tok(i, MaxLen))

\* C2: a suspension on a promise that rejects with e is resumed by
\* generator.throw(e), so a try/catch around the yield sees e and the yield
\* gives no value; a body that returns from there (its catch swallowed e)
\* has a promise that is not rejected and has no rejection queued, and the
\* promise of a body that returned is never rejected.
C2_CatchSeesRejection ==
    /\ [][\A i \in Inv :
            (Resumed(i) /\ susp[i] \in {"belayError", "rejected"}) =>
                /\ ResumedBy(i, "throw", Tok(i, pc[i]))
                /\ genres'[i].kind = "returnRecv" => genres'[i].val = Undefined
                /\ genres'[i].kind = "uncaught" => genres'[i].val = Tok(i, pc[i])
                /\ genres'[i].kind \in ReturnKinds =>
                     /\ ret'[i].state # "rejected"
                     /\ impl = "bluebird" => ret'[i].state = "fulfilled"
                     /\ \A k \in 1..Len(asyncQ') :
                          ~(asyncQ'[k].inv = i /\ asyncQ'[k].verb = "reject")]_vars
    /\ [](\A i \in Inv : genres[i].kind \in ReturnKinds => ret[i].state # "rejected")

C2_Witness ==
    \E i \in Inv :
        /\ pc[i] = 1 /\ nres[i] = 1
        /\ genres[i] = [kind |-> "returnRecv", val |-> Undefined]
        /\ ret[i] = PromiseResolve(Undefined)

C4_NestedCallOutcome ==
    [][\A i \in Inv :
        (Resumed(i) /\ susp[i] = "call") =>
            LET j == aw[i].ref
            IN  /\ j \in Inv /\ caller[j] = i
                /\ genres[j].kind # "none"
                /\ ResumedBy(i, IF genres[j].kind \in ReturnKinds THEN "next" ELSE "throw",
                             genres[j].val)
                /\ (genres[j].kind \in ReturnKinds /\ genres'[i].kind = "returnRecv") =>
                     genres'[i].val = genres[j].val
                /\ (genres[j].kind \in ErrorKinds /\ genres'[i].kind = "uncaught") =>
                     genres'[i].val = genres[j].val]_vars

C4_Witness ==
    \E i, j \in Inv :
        /\ caller[j] = i
        /\ pc[j] >= 1
        /\ genres[j] = [kind |-> "returnArg", val |-> Tok(j, 0)]
        /\ genres[i] = [kind |-> "returnRecv", val |-> Tok(j, 0)]
        /\ ret[i] = PromiseResolve(Tok(j, 0))

\* C5: the promise of a call is pending, fulfilled or rejected; once it is
\* fulfilled or rejected it never changes; it is fulfilled only with the
\* value the body returned and rejected only with the body's uncaught error.
C5_PromiseLifecycle ==
    /\ [](\A i \in Inv :
            /\ ret[i].state \in {"pending", "fulfilled", "rejected"}
            /\ ret[i].state = "pending" => ret[i] = Pending
            /\ ret[i].state = "fulfilled" =>
                 genres[i].kind \in ReturnKinds /\ ret[i].val = genres[i].val
            /\ ret[i].state = "rejected" =>
                 genres[i].kind \in ErrorKinds /\ ret[i].val = genres[i].val)
    /\ [][\A i \in Inv : Settled(ret[i]) => ret'[i] = ret[i]]_vars

C5_Witness ==
    \E i, j \in Inv :
        /\ ret[i].state = "fulfilled" /\ genres[i].kind = "returnRecv"
        /\ ret[j].state = "rejected" /\ genres[j].kind = "uncaught"

\* C6: the step that makes a wrapper call runs the body to its first yield
\* (or to its end) and returns the promise with no suspension resumed yet.
C6_EagerStart ==
    /\ [](\A i \in Inv : st[i] \in {"idle", "suspended", "done"})
    /\ [][\A i \in Inv :
            (st[i] = "idle" /\ st'[i] # "idle") =>
                /\ nres'[i] = 0
                /\ ~escaped'[i]
                /\ \/ st'[i] = "suspended" /\ pc'[i] = 1 /\ susp'[i] # "none"
                                           /\ genres'[i] = NoResult
                   \/ st'[i] = "done" /\ pc'[i] = 0 /\ genres'[i].kind # "none"]_vars

C6_Witness ==
    \E i \in Inv :
        /\ st[i] = "suspended" /\ pc[i] = 1 /\ nres[i] = 0 /\ susp[i] = "plain"
        /\ ret[i] = Pending

\* C7: at every time there is a later time at which the promise of every
\* wrapper call made so far is settled; a settled promise stays settled, so
\* every call made is settled from some time on.
C7_EventuallySettles ==
    []<>(\A i \in Inv : st[i] # "idle" => Settled(ret[i]))

C7_Witness ==
    \E i \in Inv : nres[i] = MaxLen /\ Settled(ret[i]) /\ tickQ = <<>> /\ asyncQ = <<>>

\* C8: within one invocation a suspension is resumed only when the promise
\* it waits on is settled, the next suspension is issued only after that
\* resumption, and there is at most one resumption per suspension.
C8_ResumptionOrder ==
    /\ [](\A i \in Inv :
            /\ st[i] = "idle" => pc[i] = 0 /\ nres[i] = 0
            /\ st[i] = "suspended" => pc[i] = nres[i] + 1
            /\ st[i] = "done" => pc[i] = nres[i]
            /\ Cardinality(ResumeJobsFor(i)) <= 1
            /\ ResumeJobsFor(i) # {} => st[i] = "suspended" /\ Settled(AwaitedOf(State, i)))
    /\ [][\A i \in Inv :
            Resumed(i) =>
                /\ st[i] = "suspended"
                /\ Settled(AwaitedOf(State, i))
                /\ nres'[i] = pc[i]
                /\ pc'[i] \in {pc[i], pc[i] + 1}]_vars

C8_Witness ==
    \E i \in Inv : st[i] = "done" /\ pc[i] = MaxLen /\ nres[i] = MaxLen

\* C9 as stated: while an invocation is suspended on a plain value the only
\* step that can be taken is its resumption.
C9_PlainResumedAtOnce ==
    [][\A i \in Inv : (st[i] = "suspended" /\ susp[i] = "plain") => Resumed(i)]_vars

\* C9 as amended: a suspension on a plain value v has its resumption
\* generator.next(v) in the library's queue from the step that yielded v,
\* and waits for nothing else; the resumption is a later job, and steps
\* of other invocations may come before it.
C9_PlainResumptionQueued ==
    /\ [](\A i \in Inv :
            (st[i] = "suspended" /\ susp[i] = "plain") =>
                InQueue(Job(i, "next", Tok(i, pc[i]))))
    /\ [][\A i \in Inv :
            (st'[i] = "suspended" /\ susp'[i] = "plain" /\ pc'[i] = pc[i] + 1) =>
                nres'[i] = pc[i]]_vars

C9_Witness ==
    \E i, j \in Inv :
        /\ i < j
        /\ st[i] = "suspended" /\ susp[i] = "plain" /\ pc[i] = 1
        /\ caller[j] = 0 /\ st[j] = "suspended" /\ susp[j] = "plain"

\* the job invocation i is to be resumed by, from what it yielded itself
Expected(i) ==
    CASE susp[i] \in {"plain", "resolved", "belay"} -> Job(i, "next", Tok(i, pc[i]))
      [] susp[i] \in {"rejected", "belayError"} -> Job(i, "throw", Tok(i, pc[i]))
      [] susp[i] = "call" ->
            Job(i, IF genres[aw[i].ref].kind \in ReturnKinds THEN "next" ELSE "throw",
                genres[aw[i].ref].val)
      [] OTHER -> Job(i, "none", Undefined)

\* C10: with several calls in flight every resumption of an invocation
\* delivers the outcome of what that invocation yielded, whatever the other
\* invocations do; a step of one invocation leaves the generators and the
\* promises of the others as they are, except for the calls it makes and
\* the invocation it wakes; and no step changes the module's global settings.
C10_Isolation ==
    /\ [][\A i \in Inv : Resumed(i) => asyncQ # <<>> /\ Head(asyncQ) = Expected(i)]_vars
    /\ [][\A i \in Inv : (~Resumed(i) /\ st[i] # "idle") =>
            /\ pc'[i] = pc[i]
            /\ susp'[i] = susp[i]
            /\ genres'[i] = genres[i]
            /\ impl = "bluebird" => ret'[i] = ret[i]]_vars
    /\ [][UNCHANGED <<GlobalPromise, yieldHandlers, longStackTraces>>]_vars

C10_Witness ==
    \E i, j \in Inv :
        /\ i # j /\ caller[i] = 0 /\ caller[j] = 0
        /\ nres[i] = MaxLen /\ nres[j] = MaxLen
        /\ ret[i] = PromiseResolve(Tok(i, MaxLen))
        /\ ret[j] = PromiseReject(Tok(j, MaxLen))
====
